---- MODULE Spec2Model ----
(***************************************************************************)
(* Model of backend/api/views.py and backend/api/urls.py: the DRF viewsets *)
(* of the catalog / order API.  The database tables are the state; every  *)
(* request is handled by a worker that first resolves its object           *)
(* (get_object: one SELECT) and then runs the rest of the handler (at most *)
(* one UPDATE through Model.save).                                         *)
(***************************************************************************)
EXTENDS Integers, Sequences, FiniteSets, TLC

VARIABLES
    products,    \* the products table: Product.objects (views.py line 18)
    orders,      \* the orders table: Order.objects (lines 47-48)
    items,       \* the order-items table: OrderItem.objects (line 66)
    req,         \* each worker's request: actor, pk, payload, loaded instance
    resp,        \* each worker's Response (lines 37-39, 61-63)
    lastWriter,  \* per row, the worker whose save() was the last UPDATE
    overlap      \* per worker, the requests in flight when it loaded its object

vars == <<products, orders, items, req, resp, lastWriter, overlap>>

----------------------------------------------------------------------------
(* Bounds of the model *)

\* longest string sent as a stock value
MaxStrLen == 1
\* largest / number of integers sent as a stock value: -1 .. MaxStock
MaxStock == 1
\* rows the orders table can hold
MaxOrders == 2
\* rows the order-items table can hold
MaxItems == 2

----------------------------------------------------------------------------
(* Python values carried by request.data / kwargs *)

PyNone == [t |-> "none"]
PyInt(n) == [t |-> "int", n |-> n]
PyStr(s) == [t |-> "str", s |-> s]
PyList(l) == [t |-> "list", l |-> l]

\* bool(v): the truth value Python's `and` tests
Truthy(v) ==
    CASE v.t = "none" -> FALSE
      [] v.t = "int" -> v.n # 0
      [] v.t = "str" -> v.s # ""
      [] v.t = "list" -> v.l # <<>>

\* hash(v) is defined: lists are unhashable
Hashable(v) == v.t # "list"

----------------------------------------------------------------------------
(* Actors *)

Anonymous == "anonymous"
Users == {"admin", "alice", "bob"}
Actors == Users \cup {Anonymous}

\* request.user.is_authenticated
is_authenticated(actor) == actor \in Users

\* request.user.is_staff
is_staff(actor) == actor = "admin"

----------------------------------------------------------------------------
(* Requests and responses *)

Workers == {"r1", "r2"}
NoWorker == "none"

NoRow == [missing |-> TRUE]

Idle == [pc |-> "idle", op |-> "none", actor |-> Anonymous, pk |-> 0,
         data |-> PyNone, query |-> PyNone, obj |-> NoRow]

NoResponse == [http |-> 0, body |-> "", result |-> {}]

Response(http, body) == [http |-> http, body |-> body, result |-> {}]

HTTP_200_OK == 200
HTTP_201_CREATED == 201
HTTP_400_BAD_REQUEST == 400
HTTP_403_FORBIDDEN == 403
HTTP_404_NOT_FOUND == 404
HTTP_500_INTERNAL_SERVER_ERROR == 500

\* the workers whose request has loaded its object and not yet finished
InFlight == {v \in Workers : req[v].pc = "loaded"}

\* what worker w wrote is no longer the write of a request at hand
Forget(writers, w) == [p \in DOMAIN writers |-> IF writers[p] = w THEN NoWorker ELSE writers[p]]

\* Model.save(): UPDATE of every column of the row from the in-memory instance
ModelSaveIfUnchanged(table, pk, loaded, instance) ==
    IF table[pk] = loaded THEN [table EXCEPT ![pk] = instance] ELSE table

ModelSave(table, pk, loaded, instance) == [table EXCEPT ![pk] = instance]

\* the request of worker w: r with its position pc and the instance it loaded
Request(pc, op, actor, pk, data, query, obj) ==
    [pc |-> pc, op |-> op, actor |-> actor, pk |-> pk, data |-> data,
     query |-> query, obj |-> obj]

\* a handler that ends at once: the request is answered without a lookup
Answer(w, r, response) ==
    /\ req[w].pc = "idle"
    /\ req' = [req EXCEPT ![w] = r]
    /\ resp' = [resp EXCEPT ![w] = response]
    /\ UNCHANGED <<lastWriter, overlap>>

\* get_object found the row: the handler goes on with the instance
Loaded(w, r) ==
    /\ req[w].pc = "idle"
    /\ req' = [req EXCEPT ![w] = r]
    /\ resp' = [resp EXCEPT ![w] = NoResponse]
    /\ overlap' = [overlap EXCEPT ![w] = InFlight \ {w}]
    /\ UNCHANGED lastWriter

\* the response leaves the server; the worker is free for the next request
respond(w) ==
    /\ req[w].pc = "done"
    /\ req' = [req EXCEPT ![w] = Idle]
    /\ resp' = [resp EXCEPT ![w] = NoResponse]
    /\ lastWriter' = [product |-> Forget(lastWriter.product, w),
                      order |-> Forget(lastWriter.order, w)]
    /\ overlap' = [v \in Workers |-> IF v = w THEN {} ELSE overlap[v] \ {w}]
    /\ UNCHANGED <<products, orders, items>>

----------------------------------------------------------------------------
(* Product.stock is an integer column: what save() does with the value    *)
(* assigned to it (IntegerField.get_prep_value: int(value))                *)

\* the characters of the strings sent as a stock value
Chars == {"-", "1", "a"}

Strings == UNION {[1..n -> Chars] : n \in 0..MaxStrLen}

Digits == {"0", "1", "2", "3", "4", "5", "6", "7", "8", "9"}

DigitVal(c) ==
    CASE c = "0" -> 0 [] c = "1" -> 1 [] c = "2" -> 2 [] c = "3" -> 3
      [] c = "4" -> 4 [] c = "5" -> 5 [] c = "6" -> 6 [] c = "7" -> 7
      [] c = "8" -> 8 [] c = "9" -> 9

RECURSIVE ParseDigits(_)
ParseDigits(s) ==
    IF s = <<>> THEN 0
    ELSE 10 * ParseDigits(SubSeq(s, 1, Len(s) - 1)) + DigitVal(s[Len(s)])

\* the digits of a literal, without its sign
Unsigned(s) == IF s # <<>> /\ s[1] = "-" THEN Tail(s) ELSE s

\* int(s) succeeds: an optional sign and at least one digit
IsIntLiteral(s) ==
    /\ Unsigned(s) # <<>>
    /\ \A i \in 1..Len(Unsigned(s)) : Unsigned(s)[i] \in Digits

\* int(s)
IntOfStr(s) ==
    IF s # <<>> /\ s[1] = "-" THEN 0 - ParseDigits(Unsigned(s)) ELSE ParseDigits(Unsigned(s))

\* get_prep_value does not raise: None (NOT NULL column), non-numeric strings
\* and lists make save() raise
CanPrep(v) == \/ v.t = "int"
              \/ v.t = "str" /\ IsIntLiteral(v.s)

\* the integer written to the column
get_prep_value(v) == IF v.t = "int" THEN v.n ELSE IntOfStr(v.s)

----------------------------------------------------------------------------
(* ProductViewSet *)

ProductIds == {1, 2}
ProductPks == {1, 2, 3}
Categories == {1, 2}

StockPayloads ==
    {PyNone} \cup {PyInt(n) : n \in -1..MaxStock} \cup {PyStr(s) : s \in Strings}

CategoryParams == {PyNone} \cup {PyInt(c) : c \in Categories}

\* ProductViewSet.get_queryset: the ids of the rows it selects
ProductViewSet_get_queryset(category) ==
    IF category # PyNone
    THEN {p \in ProductIds : products[p].category = category.n}
    ELSE ProductIds

\* `if new_stock is not None`
StockAlwaysProvided(new_stock) == TRUE

StockProvided(new_stock) == new_stock # PyNone

\* update_stock up to and including get_object: permission check and lookup
update_stock_get_object(w, actor, pk, data, query) ==
    /\ IF ~is_authenticated(actor)
       THEN Answer(w, Request("done", "update_stock", actor, pk, data, query, NoRow),
                   Response(HTTP_403_FORBIDDEN, "forbidden"))
       ELSE IF pk \notin ProductViewSet_get_queryset(query)
       THEN Answer(w, Request("done", "update_stock", actor, pk, data, query, NoRow),
                   Response(HTTP_404_NOT_FOUND, "not found"))
       ELSE Loaded(w, Request("loaded", "update_stock", actor, pk, data, query,
                              products[pk]))
    /\ UNCHANGED <<products, orders, items>>

\* update_stock after get_object
update_stock(w) ==
    /\ req[w].pc = "loaded"
    /\ req[w].op = "update_stock"
    /\ req' = [req EXCEPT ![w].pc = "done"]
    /\ LET product == req[w].obj
           new_stock == req[w].data
       IN IF StockProvided(new_stock)
          THEN IF CanPrep(new_stock)
               THEN /\ products' = ModelSave(products, req[w].pk, product,
                                      [product EXCEPT !.stock = get_prep_value(new_stock)])
                    /\ lastWriter' = [lastWriter EXCEPT !.product[req[w].pk] = w]
                    /\ resp' = [resp EXCEPT ![w] = Response(HTTP_200_OK, "stock updated")]
               ELSE /\ resp' = [resp EXCEPT ![w] =
                                  Response(HTTP_500_INTERNAL_SERVER_ERROR, "ValueError")]
                    /\ UNCHANGED <<products, lastWriter>>
          ELSE /\ resp' = [resp EXCEPT ![w] =
                             Response(HTTP_400_BAD_REQUEST, "stock value not provided")]
               /\ UNCHANGED <<products, lastWriter>>
    /\ UNCHANGED <<orders, items, overlap>>

----------------------------------------------------------------------------
(* OrderViewSet *)

\* the keys of Order.STATUS_CHOICES
STATUS_CHOICES == {"pending", "processing", "shipped", "delivered", "cancelled"}

OrderIds == 1..MaxOrders
OrderPks == 1..(MaxOrders + 1)

NoUser == "none"

\* what the status field of an update_status request may carry
StatusPayloads ==
    {PyNone, PyStr(""), PyStr("bogus"), PyList(<<>>), PyList(<<"pending">>)}
        \cup {PyStr(s) : s \in STATUS_CHOICES}

\* the validated payload of an order creation
CreatePayloads == [user : {NoUser, "alice", "bob"}, status : {"pending"}]

\* the ids of the rows of the orders table
AllOrders == {o \in OrderIds : orders[o] # NoRow}

\* OrderViewSet.get_queryset: the ids of the rows it selects
OrderViewSet_get_queryset_authenticated(actor) ==
    IF is_authenticated(actor)
    THEN AllOrders
    ELSE {o \in AllOrders : orders[o].user = actor}

OrderViewSet_get_queryset_exclude(actor) ==
    IF is_staff(actor)
    THEN AllOrders
    ELSE {o \in AllOrders : orders[o].user # actor}

OrderViewSet_get_queryset(actor) ==
    IF is_staff(actor)
    THEN AllOrders
    ELSE {o \in AllOrders : orders[o].user = actor}

\* serializer.save(user=request.user): the keyword overrides the payload
perform_create_setdefault(validated_data, user) ==
    IF validated_data.user = NoUser
    THEN [validated_data EXCEPT !.user = user]
    ELSE validated_data

perform_create(validated_data, user) == [validated_data EXCEPT !.user = user]

\* OrderViewSet.create: permission check, then perform_create inserts the row
OrderViewSet_create(w, actor, validated_data) ==
    /\ IF ~is_authenticated(actor)
       THEN /\ Answer(w, Request("done", "create", actor, 0, validated_data, PyNone, NoRow),
                      Response(HTTP_403_FORBIDDEN, "forbidden"))
            /\ UNCHANGED orders
       ELSE \E o \in OrderIds :
               /\ orders[o] = NoRow
               /\ \A n \in 1..(o - 1) : orders[n] # NoRow
               /\ orders' = [orders EXCEPT ![o] = perform_create(validated_data, actor)]
               /\ Answer(w, Request("done", "create", actor, o, validated_data, PyNone, NoRow),
                         Response(HTTP_201_CREATED, "created"))
    /\ UNCHANGED <<products, items>>

\* OrderViewSet.list: permission check, then the rows of get_queryset
OrderViewSet_list(w, actor) ==
    /\ IF ~is_authenticated(actor)
       THEN Answer(w, Request("done", "list", actor, 0, PyNone, PyNone, NoRow),
                   Response(HTTP_403_FORBIDDEN, "forbidden"))
       ELSE Answer(w, Request("done", "list", actor, 0, PyNone, PyNone, NoRow),
                   [http |-> HTTP_200_OK, body |-> "list",
                    result |-> OrderViewSet_get_queryset(actor)])
    /\ UNCHANGED <<products, orders, items>>

\* `new_status and new_status in dict(Order.STATUS_CHOICES)`: "accept", "reject",
\* or "raise" when the membership test hashes an unhashable value
status_check(new_status) ==
    IF ~Truthy(new_status) THEN "reject"
    ELSE IF ~Hashable(new_status) THEN "raise"
    ELSE IF new_status.t = "str" /\ new_status.s \in STATUS_CHOICES THEN "accept"
    ELSE "reject"

\* `order.status = new_status`
set_status_unless_delivered(order, new_status) ==
    IF order.status = "delivered" THEN order ELSE [order EXCEPT !.status = new_status.s]

set_status(order, new_status) == [order EXCEPT !.status = new_status.s]

\* update_status up to and including get_object: permission check and lookup
update_status_get_object(w, actor, pk, data) ==
    /\ IF ~is_authenticated(actor)
       THEN Answer(w, Request("done", "update_status", actor, pk, data, PyNone, NoRow),
                   Response(HTTP_403_FORBIDDEN, "forbidden"))
       ELSE IF pk \notin OrderViewSet_get_queryset(actor)
       THEN Answer(w, Request("done", "update_status", actor, pk, data, PyNone, NoRow),
                   Response(HTTP_404_NOT_FOUND, "not found"))
       ELSE Loaded(w, Request("loaded", "update_status", actor, pk, data, PyNone,
                              orders[pk]))
    /\ UNCHANGED <<products, orders, items>>

\* update_status after get_object
update_status(w) ==
    /\ req[w].pc = "loaded"
    /\ req[w].op = "update_status"
    /\ req' = [req EXCEPT ![w].pc = "done"]
    /\ LET order == req[w].obj
           new_status == req[w].data
       IN CASE status_check(new_status) = "accept" ->
                 /\ orders' = ModelSave(orders, req[w].pk, order,
                                        set_status(order, new_status))
                 /\ lastWriter' = [lastWriter EXCEPT !.order[req[w].pk] = w]
                 /\ resp' = [resp EXCEPT ![w] =
                               Response(HTTP_200_OK, "order status updated")]
            [] status_check(new_status) = "reject" ->
                 /\ resp' = [resp EXCEPT ![w] =
                               Response(HTTP_400_BAD_REQUEST, "invalid status")]
                 /\ UNCHANGED <<orders, lastWriter>>
            [] status_check(new_status) = "raise" ->
                 /\ resp' = [resp EXCEPT ![w] =
                               Response(HTTP_500_INTERNAL_SERVER_ERROR, "TypeError")]
                 /\ UNCHANGED <<orders, lastWriter>>
    /\ UNCHANGED <<products, items, overlap>>

----------------------------------------------------------------------------
(* OrderItemViewSet *)

ItemIds == 1..MaxItems

\* self.kwargs of an order-items request: the router of urls.py registers
\* order-items flat, so its routes carry no order_pk; a route nested under an
\* order carries one
RouterKwargs == {PyNone}
NestedKwargs == {PyInt(o) : o \in OrderPks}

AllItems == {i \in ItemIds : items[i] # NoRow}

\* OrderItemViewSet.get_queryset: the ids of the rows it selects
OrderItemViewSet_get_queryset_all(order_id) ==
    IF order_id # PyNone
    THEN {i \in AllItems : items[i].order_id = order_id.n}
    ELSE AllItems

OrderItemViewSet_get_queryset(order_id) ==
    IF order_id # PyNone
    THEN {i \in AllItems : items[i].order_id = order_id.n}
    ELSE {}

\* OrderItemViewSet.create: permission check, then the row is inserted
OrderItemViewSet_create(w, actor, order_id) ==
    /\ IF ~is_authenticated(actor)
       THEN /\ Answer(w, Request("done", "create_item", actor, 0, PyInt(order_id), PyNone, NoRow),
                      Response(HTTP_403_FORBIDDEN, "forbidden"))
            /\ UNCHANGED items
       ELSE \E i \in ItemIds :
               /\ items[i] = NoRow
               /\ \A n \in 1..(i - 1) : items[n] # NoRow
               /\ order_id \in AllOrders
               /\ items' = [items EXCEPT ![i] = [order_id |-> order_id]]
               /\ Answer(w, Request("done", "create_item", actor, i, PyInt(order_id), PyNone, NoRow),
                         Response(HTTP_201_CREATED, "created"))
    /\ UNCHANGED <<products, orders>>

\* OrderItemViewSet.list: permission check, then the rows of get_queryset
OrderItemViewSet_list(w, actor, kwargs) ==
    /\ IF ~is_authenticated(actor)
       THEN Answer(w, Request("done", "list_items", actor, 0, PyNone, kwargs, NoRow),
                   Response(HTTP_403_FORBIDDEN, "forbidden"))
       ELSE Answer(w, Request("done", "list_items", actor, 0, PyNone, kwargs, NoRow),
                   [http |-> HTTP_200_OK, body |-> "list",
                    result |-> OrderItemViewSet_get_queryset(kwargs)])
    /\ UNCHANGED <<products, orders, items>>

----------------------------------------------------------------------------
(* Specifications *)

NoOrders == [o \in OrderIds |-> NoRow]
NoItems == [i \in ItemIds |-> NoRow]

InitRequests ==
    /\ req = [w \in Workers |-> Idle]
    /\ resp = [w \in Workers |-> NoResponse]
    /\ overlap = [w \in Workers |-> {}]
    /\ lastWriter = [product |-> [p \in ProductIds |-> NoWorker],
                     order |-> [o \in OrderIds |-> NoWorker]]

InitStock ==
    /\ products \in [ProductIds -> [stock : 0..MaxStock, category : Categories]]
    /\ orders = NoOrders
    /\ items = NoItems
    /\ InitRequests

NextStock ==
    \/ \E actor \in Actors, pk \in ProductPks, data \in StockPayloads, query \in CategoryParams :
          update_stock_get_object("r1", actor, pk, data, query)
    \/ update_stock("r1")
    \/ respond("r1")

\* the product endpoints, one request at a time
SpecStock == InitStock /\ [][NextStock]_vars

InitOrders ==
    /\ products = [p \in ProductIds |-> [stock |-> 0, category |-> p]]
    /\ orders = NoOrders
    /\ items = NoItems
    /\ InitRequests

Next ==
    \/ \E actor \in Actors, data \in CreatePayloads : OrderViewSet_create("r1", actor, data)
    \/ \E actor \in Actors : OrderViewSet_list("r1", actor)
    \/ \E actor \in Actors, pk \in OrderPks, data \in StatusPayloads :
          update_status_get_object("r1", actor, pk, data)
    \/ update_status("r1")
    \/ respond("r1")

\* the order endpoints, one request at a time
Spec == InitOrders /\ [][Next]_vars

InitItems ==
    /\ products = [p \in ProductIds |-> [stock |-> 0, category |-> p]]
    /\ orders \in [OrderIds -> [user : {"alice", "bob"}, status : {"pending"}]]
    /\ items = NoItems
    /\ InitRequests

NextItems ==
    \/ \E w \in Workers, actor \in Actors, o \in OrderPks : OrderItemViewSet_create(w, actor, o)
    \/ \E w \in Workers, actor \in Actors, kwargs \in RouterKwargs \cup NestedKwargs :
          OrderItemViewSet_list(w, actor, kwargs)
    \/ \E w \in Workers : respond(w)

\* the order-item endpoints, two requests at a time
SpecItems == InitItems /\ [][NextItems]_vars

\* the values two concurrent requests write
ConcurrentStocks == {PyInt(n) : n \in 0..MaxStock}
ConcurrentStatuses == {PyStr("shipped"), PyStr("pending")}

InitConcurrent ==
    /\ products = [p \in ProductIds |-> [stock |-> 0, category |-> p]]
    /\ orders = [o \in OrderIds |->
                   IF o = 1 THEN [user |-> "alice", status |-> "delivered"] ELSE NoRow]
    /\ items = NoItems
    /\ InitRequests

NextConcurrent ==
    \/ \E w \in Workers, data \in ConcurrentStocks :
          update_stock_get_object(w, "alice", 1, data, PyNone)
    \/ \E w \in Workers : update_stock(w)
    \/ \E w \in Workers, actor \in {"alice", "admin"}, data \in ConcurrentStatuses :
          update_status_get_object(w, actor, 1, data)
    \/ \E w \in Workers : update_status(w)
    \/ \E w \in Workers : respond(w)

\* two workers handling update_stock and update_status requests on one product
\* and one order, their SELECTs and UPDATEs interleaved
SpecConcurrent == InitConcurrent /\ [][NextConcurrent]_vars

----------------------------------------------------------------------------
(* Properties *)

\* worker w's step is the part of handler op that follows get_object
Finishes(w, op) ==
    /\ req[w].pc = "loaded"
    /\ req[w].op = op
    /\ req'[w].pc = "done"

\* worker w's step is the arrival of a request of kind op
Arrives(w, op) ==
    /\ req[w].pc = "idle"
    /\ req'[w].pc # "idle"
    /\ req'[w].op = op

\* worker w holds the answered request of kind op
Answered(w, op) ==
    /\ req[w].pc = "done"
    /\ req[w].op = op

\* v is a member of the status enumeration
IsValidStatus(v) == v.t = "str" /\ v.s \in STATUS_CHOICES

\* every stored status is a member of the enumeration
StatusInEnumeration ==
    \A o \in OrderIds : orders[o] # NoRow => orders[o].status \in STATUS_CHOICES

\* C1: update_status with a status of the enumeration sets the order's status
\* to exactly that value, whatever the status was, and answers 200 'order
\* status updated'
C1_ValidStatusIsSet ==
    [][\A w \in Workers :
          Finishes(w, "update_status") /\ IsValidStatus(req[w].data)
          => /\ orders'[req[w].pk].status = req[w].data.s
             /\ resp'[w] = Response(HTTP_200_OK, "order status updated")]_vars

\* C1: an order that was delivered has been set back to pending
C1_Witness ==
    \E w \in Workers :
        /\ Answered(w, "update_status")
        /\ req[w].obj # NoRow
        /\ req[w].obj.status = "delivered"
        /\ req[w].data = PyStr("pending")
        /\ orders[req[w].pk].status = "pending"
        /\ resp[w] = Response(HTTP_200_OK, "order status updated")

\* C2: update_status with a status that is absent, empty or not in the
\* enumeration answers 400 'invalid status' and leaves the orders as they were
C2_InvalidStatusRejected ==
    [][\A w \in Workers :
          Finishes(w, "update_status") /\ ~IsValidStatus(req[w].data)
          => /\ resp'[w] = Response(HTTP_400_BAD_REQUEST, "invalid status")
             /\ orders' = orders]_vars

\* the column holds exactly the value v that was sent
StoredExactly(n, v) ==
    \/ v.t = "int" /\ n = v.n
    \/ v.t = "str" /\ IsIntLiteral(v.s) /\ n = IntOfStr(v.s)

\* C3: update_stock with any present value v stores exactly v and answers 200
\* 'stock updated'
C3_PresentStockIsStored ==
    [][\A w \in Workers :
          Finishes(w, "update_stock") /\ req[w].data # PyNone
          => /\ resp'[w] = Response(HTTP_200_OK, "stock updated")
             /\ StoredExactly(products'[req[w].pk].stock, req[w].data)]_vars

\* C4: update_stock without a stock value answers 400 'stock value not
\* provided' and leaves every product as it was
C4_AbsentStockRejected ==
    [][\A w \in Workers :
          Finishes(w, "update_stock") /\ req[w].data = PyNone
          => /\ resp'[w] = Response(HTTP_400_BAD_REQUEST, "stock value not provided")
             /\ products' = products]_vars

\* C4: a request without a stock value was rejected after earlier updates had
\* changed the stock, which is still what they made it
C4_Witness ==
    \E w \in Workers :
        /\ Answered(w, "update_stock")
        /\ req[w].data = PyNone
        /\ resp[w] = Response(HTTP_400_BAD_REQUEST, "stock value not provided")
        /\ products[req[w].pk].stock = MaxStock
        /\ \E p \in ProductIds : products[p].stock < 0

\* C5: the list of orders answered to a staff actor is every order of the
\* table, and to any other actor exactly the orders that actor owns
C5_ListVisibleOrders ==
    [][\A w \in Workers :
          Arrives(w, "list") /\ is_authenticated(req'[w].actor)
          => /\ resp'[w].http = HTTP_200_OK
             /\ \A o \in OrderIds :
                   o \in resp'[w].result
                   <=> /\ orders[o] # NoRow
                       /\ is_staff(req'[w].actor) \/ orders[o].user = req'[w].actor]_vars

\* C5: an actor who is not staff listed the orders while the table held an
\* order of its own and an order of somebody else, and got only its own
C5_Witness ==
    \E w \in Workers, mine \in OrderIds, other \in OrderIds :
        /\ Answered(w, "list")
        /\ ~is_staff(req[w].actor)
        /\ orders[mine] # NoRow /\ orders[mine].user = req[w].actor
        /\ orders[other] # NoRow /\ orders[other].user # req[w].actor
        /\ resp[w].result = {mine}

\* C6: the list of order items is empty without an order_pk and, with one,
\* exactly the items of that order, whoever the authenticated actor is
C6_ListVisibleOrderItems ==
    [][\A w \in Workers :
          Arrives(w, "list_items") /\ is_authenticated(req'[w].actor)
          => /\ resp'[w].http = HTTP_200_OK
             /\ req'[w].query = PyNone => resp'[w].result = {}
             /\ req'[w].query # PyNone =>
                   \A i \in ItemIds :
                       i \in resp'[w].result
                       <=> items[i] # NoRow /\ items[i].order_id = req'[w].query.n]_vars

\* C6: with items in the table, one list without order_pk came back empty and
\* one list with the order_pk of somebody else's order came back with items
C6_Witness ==
    \E w1 \in Workers, w2 \in Workers :
        /\ Answered(w1, "list_items")
        /\ req[w1].query = PyNone
        /\ resp[w1].http = HTTP_200_OK /\ resp[w1].result = {}
        /\ AllItems # {}
        /\ Answered(w2, "list_items")
        /\ req[w2].query # PyNone
        /\ resp[w2].result # {}
        /\ ~is_staff(req[w2].actor)
        /\ orders[req[w2].query.n].user # req[w2].actor

\* C7: the stock of every product is at least 0
C7_StockNonNegative == \A p \in ProductIds : products[p].stock >= 0

Stored(op, pk) ==
    IF op = "update_stock" THEN products[pk].stock ELSE orders[pk].status

\* the value a request sends for that column
Sent(op, v) == IF op = "update_stock" THEN v.n ELSE v.s

\* the worker whose save of row pk, by a request of kind op, was the last
LastSaved(op, pk) ==
    IF op = "update_stock" THEN lastWriter.product[pk] ELSE lastWriter.order[pk]

\* C9: two requests on one row that both sent a valid value both answer 200,
\* and the row holds the value of the one whose save was the last
C9_LastWriteWins ==
    \A w1 \in Workers, w2 \in Workers, op \in {"update_stock", "update_status"} :
        /\ w1 # w2
        /\ Answered(w1, op) /\ Answered(w2, op)
        /\ req[w1].pk = req[w2].pk
        => /\ resp[w1].http = HTTP_200_OK
           /\ resp[w2].http = HTTP_200_OK
           /\ LastSaved(op, req[w1].pk) \in {w1, w2}
           /\ Stored(op, req[w1].pk) = Sent(op, req[LastSaved(op, req[w1].pk)].data)

\* C9: two update_stock requests with different values overlapped, the one
\* that loaded first saved last, and the product holds its value
C9_Witness ==
    \E w1 \in Workers, w2 \in Workers :
        /\ Answered(w1, "update_stock") /\ Answered(w2, "update_stock")
        /\ w1 \in overlap[w2]
        /\ req[w1].data # req[w2].data
        /\ lastWriter.product[req[w1].pk] = w1
        /\ products[req[w1].pk].stock = req[w1].data.n

====
